---- MODULE Spec2Model ----
(***************************************************************************)
(* A model of the gateway RF tester (rf-tester/src/main.rs) and of the     *)
(* region plans it sweeps (regions/src/lib.rs).                            *)
(*                                                                         *)
(* Two endpoint tasks (start_server) feed one bounded mpsc channel; the    *)
(* driver (main, run_test) waits for both registration one-shots, then     *)
(* sweeps the region's channels in both directions.                        *)
(***************************************************************************)
EXTENDS Integers, Sequences, FiniteSets, TLC

\* ------------------------------------------------------------------ bounds

\* Capacity of the observation channel in the model (mpsc::channel(120) in
\* the source, scaled down).
QueueCap == 1

\* Radio frames the two endpoints receive, in total, between two returns of
\* a dispatch call.
MaxFrames == 1

\* The wait window of a channel step in clock ticks (Duration::from_secs(10)
\* in the source, scaled down); the per-pull timeout is the same duration.
WaitFor == 2

\* Channels of a region's plan that a sweep of the model visits.
MaxChannels == 2

\* The longest argument of decomment explored, in characters.
MaxLen == 4

\* ------------------------------------------------------------- regions

US915_UPLINK_FREQUENCIES ==
    <<903900000, 904100000, 904300000, 904500000,
      904700000, 904900000, 905100000, 905300000>>

EU868_UPLINK_FREQUENCIES ==
    <<868100000, 868300000, 868500000, 867100000, 867300000,
      867500000, 867700000, 867900000, 868300000>>

\* A plan that lists its first frequency again.
EU433_REPEATED == <<433175000, 433375000, 433175000>>

EU433_UPLINK_FREQUENCIES == <<433175000, 433375000, 433575000>>

CN470_UPLINK_FREQUENCIES ==
    <<486300000, 486500000, 486700000, 486900000,
      487100000, 487300000, 487500000, 487700000>>

CN779_UPLINK_FREQUENCIES == <<779500000, 779700000, 779900000>>

AU915_UPLINK_FREQUENCIES ==
    <<916800000, 917000000, 917200000, 917400000, 917500000,
      917600000, 917800000, 918000000, 918200000>>

AS923_1_UPLINK_FREQUENCIES ==
    <<923200000, 923400000, 923600000, 923800000,
      924000000, 924200000, 924400000, 924600000>>

AS923_2_UPLINK_FREQUENCIES ==
    <<921400000, 921600000, 921800000, 922000000,
      922200000, 922400000, 922600000, 922800000>>

AS923_3_UPLINK_FREQUENCIES ==
    <<916600000, 916800000, 917000000, 917200000,
      917400000, 917600000, 917800000, 918000000>>

AS923_4_UPLINK_FREQUENCIES ==
    <<917300000, 917500000, 917700000, 917900000,
      918100000, 918300000, 918500000, 918700000>>

IN865_UPLINK_FREQUENCIES == <<865062500, 865402500, 865985000>>

KR920_UPLINK_FREQUENCIES ==
    <<922100000, 922300000, 922500000, 922700000,
      922900000, 923100000, 923300000>>

RU864_UPLINK_FREQUENCIES ==
    <<864100000, 864300000, 864500000, 864700000,
      864900000, 868900000, 869100000>>

Region ==
    {"US915", "EU868", "EU433", "CN470", "CN779", "AU915", "AS923_1",
     "AS923_2", "AS923_3", "AS923_4", "KR920", "IN865", "RU864"}

get_uplink_frequencies(r) ==
    CASE r = "US915" -> US915_UPLINK_FREQUENCIES
      [] r = "EU868" -> EU868_UPLINK_FREQUENCIES
      [] r = "EU433" -> EU433_UPLINK_FREQUENCIES
      [] r = "CN470" -> CN470_UPLINK_FREQUENCIES
      [] r = "CN779" -> CN779_UPLINK_FREQUENCIES
      [] r = "AU915" -> AU915_UPLINK_FREQUENCIES
      [] r = "AS923_1" -> AS923_1_UPLINK_FREQUENCIES
      [] r = "AS923_2" -> AS923_2_UPLINK_FREQUENCIES
      [] r = "AS923_3" -> AS923_3_UPLINK_FREQUENCIES
      [] r = "AS923_4" -> AS923_4_UPLINK_FREQUENCIES
      [] r = "KR920" -> KR920_UPLINK_FREQUENCIES
      [] r = "IN865" -> IN865_UPLINK_FREQUENCIES
      [] r = "RU864" -> RU864_UPLINK_FREQUENCIES

\* --------------------------------------------------- f64 frequency values
\* An f64 in [256, 1024) is a multiple of 2^-44.  The model writes such a
\* value as limbs <<q, d, lo>> standing for (q*2^38 + d*2^22 + lo) * 2^-44,
\* so that every intermediate stays below 2^31.

Pow5_6 == 15625

Pow2_16 == 65536

Pow2_22 == 4194304

\* The f64 nearest to hz / 1_000_000 (one correctly rounded division), for
\* 256 MHz <= hz < 1024 MHz.  hz/10^6 = hz / (2^6 * 5^6); the quotient is
\* developed 16, 16 and k bits at a time, k = 5 in [512, 1024) where the
\* spacing of f64 values is 2^-43, k = 6 in [256, 512) where it is 2^-44.
\* 5^6 is odd, so the division never ends on a tie.
F64OfHz(hz) ==
    LET q == hz \div Pow5_6
        s == hz % Pow5_6
        k == IF hz >= 512000000 THEN 5 ELSE 6
        d1 == (s * Pow2_16) \div Pow5_6
        r1 == (s * Pow2_16) % Pow5_6
        d2 == (r1 * Pow2_16) \div Pow5_6
        r2 == (r1 * Pow2_16) % Pow5_6
        d3 == (r2 * (2 ^ k)) \div Pow5_6
        r3 == (r2 * (2 ^ k)) % Pow5_6
        up == IF 2 * r3 > Pow5_6 THEN 1 ELSE 0
        low == d2 * (2 ^ k) + d3 + up
    IN  <<q, d1, IF k = 5 THEN 2 * low ELSE low>>

\* a - b for two f64 values of [256, 1024) less than 256 apart: the
\* difference is a multiple of 2^-44 below 2^9, hence exact in f64.  The
\* result is <<top, lo>> standing for (top*2^22 + lo) * 2^-44, 0 <= lo < 2^22.
F64Sub(a, b) ==
    LET top == (a[1] - b[1]) * Pow2_16 + (a[2] - b[2])
        lo == a[3] - b[3]
    IN  <<top + (lo \div Pow2_22), lo % Pow2_22>>

\* f64::abs
F64Abs(x) ==
    IF x[1] >= 0 THEN x
    ELSE IF x[2] = 0 THEN <<-x[1], 0>>
    ELSE <<-x[1] - 1, Pow2_22 - x[2]>>

\* The f64 literal 0.1 is 3602879701896397 * 2^-55; a multiple n * 2^-44 is
\* below it exactly when n <= 1759218604441 = TenthTop * 2^22 + TenthLo.
TenthTop == 419430

TenthLo == 1677721

\* x < 0.1 for a non-negative difference x
F64LtTenth(x) ==
    \/ x[1] < TenthTop
    \/ x[1] = TenthTop /\ x[2] <= TenthLo

\* ------------------------------------------------------------ the run

\* The two endpoints, named by their Role.
Role == {"Tested", "Control"}

\* MacAddress values of the gateways that can talk to the endpoints.
MacAddress == {"m1", "m2"}

None == "none"

\* cli.region of the runs explored.
CliRegions == {"AU915"}

\* cli.datr (its default) and a data rate a gateway may report instead.
Datr == "SF12BW125"

OtherDatr == "SF7BW125"

\* cli.power (its default)
Power == 12

\* The payload of a frame: `size` bytes, all equal to `byte`.
Payload(size, byte) == [size |-> size, byte |-> byte]

\* A create_packet that divides the channel as an integer before it
\* converts it.
create_packet_whole_mhz(channel, datr, power) ==
    [imme |-> TRUE, tmst |-> 0,
     freq |-> F64OfHz((channel \div 1000000) * 1000000), rfch |-> 0,
     powe |-> power, modu |-> "LORA", datr |-> datr, codr |-> "4/5",
     ipol |-> FALSE, size |-> 52, data |-> Payload(52, 0)]

\* create_packet: the TxPk sent for one channel of the plan.
create_packet(channel, datr, power) ==
    [imme |-> TRUE, tmst |-> 0, freq |-> F64OfHz(channel), rfch |-> 0,
     powe |-> power, modu |-> "LORA", datr |-> datr, codr |-> "4/5",
     ipol |-> FALSE, size |-> 52, data |-> Payload(52, 0)]

\* RxPk::get_frequency: the f64 parsed from the decimal MHz value a gateway
\* reports, held in the model as the reported value in Hz.
get_frequency(rxpk) == F64OfHz(rxpk.freq)

VARIABLES
    region,        \* cli.region
    rxpks,         \* the frames the gateways of the run may report
    pc,            \* where main / run_test stands
    dir,           \* 1: first run_test call of main, 2: the second
    idx,           \* index into the channels (1-based) of the current step
    macs,          \* main's (test_mac, control_mac) after the join
    elapsed,       \* Instant::now().duration_since(start), in ticks
    pullElapsed,   \* time the current timeout(wait_for, recv()) has waited
    passed,        \* run_test's `passed`
    matched,       \* <<the message that set `passed`, its step's channel>>,
                   \* else <<>> (history)
    matchArrived,  \* a frame that fits the step arrived in its window (history)
    results,       \* the steps that ended, in order (history)
    dispatches,    \* the dispatch calls that returned, in order (history)
    spawned,       \* per endpoint: its task runs
    sender,        \* per endpoint: test_tx is still Some
    gate,          \* per endpoint: the value sent on its oneshot
    resolved,      \* per endpoint: number of oneshot sends (history)
    firstMac,      \* per endpoint: the mac of its first NewClient (history)
    reRegistered,  \* an endpoint saw a NewClient after its first (history)
    tolerated,     \* the endpoints have handled an odd number of the events
                   \* they only print (history)
    pending,       \* per endpoint: <<the message its blocked send holds>>
    frames,        \* frames received since the last dispatch returned (history)
    owed,          \* frames received and not yet pulled by the driver (history)
    queue,         \* the mpsc channel
    inbox,         \* per endpoint: the messages of the frames it received that
                   \* the driver has not pulled, oldest first (history)
    src,           \* decomment's argument
    out,           \* <<what decomment(src) came to>>, <<>> before the call
    config,        \* sx13xx-conf: <<the Config parsed>>
    cpc,           \* sx13xx-conf: where its main stands
    warning,       \* sx13xx-conf: the summary printed ends with the warning
    index,         \* sx13xx-conf: main's loop index
    reports        \* sx13xx-conf: the mismatch lines printed, in order

driverVars == <<region, rxpks, pc, dir, idx, macs, elapsed, pullElapsed, passed,
                matched, matchArrived, results, dispatches>>

endpointVars == <<spawned, sender, gate, resolved, firstMac, reRegistered,
                  tolerated, pending>>

runVars == <<driverVars, endpointVars, frames, owed, queue, inbox>>

\* The variables of sx13xx-conf, which rf-tester leaves alone.
decommentVars == <<src, out>>

checkerVars == <<config, cpc, warning, index, reports>>

toolVars == <<decommentVars, checkerVars>>

vars == <<runVars, toolVars>>

\* sx13xx-conf has not been started.
DecommentIdle == src = <<>> /\ out = <<>>

CheckerIdle ==
    /\ config = <<>>
    /\ cpc = "idle"
    /\ warning = FALSE
    /\ index = 0
    /\ reports = <<>>

ToolIdle == DecommentIdle /\ CheckerIdle

\* run_test's `channels`, cut to the channels the model sweeps.
Channels ==
    LET all == get_uplink_frequencies(region)
    IN  SubSeq(all, 1, IF Len(all) < MaxChannels THEN Len(all) ELSE MaxChannels)

\* A first argument of run_test that names the transmitting endpoint.
ReceiverRoleOfSender == IF dir = 1 THEN "Tested" ELSE "Control"

\* main's arguments to its two run_test calls.
ReceiverRole == IF dir = 1 THEN "Control" ELSE "Tested"

SenderRole == IF dir = 1 THEN "Tested" ELSE "Control"

\* txpk of the current step
Txpk == create_packet(Channels[idx], Datr, Power)

\* The condition without its comparison of mac.
IsExpectedOfAnyMac(msg) ==
    /\ msg.role = ReceiverRole
    /\ msg.rxpk.data = Txpk.data
    /\ msg.rxpk.datr = Txpk.datr
    /\ F64LtTenth(F64Abs(F64Sub(get_frequency(msg.rxpk), Txpk.freq)))

\* The condition of run_test's `if` on a pulled message.
IsExpected(msg) ==
    /\ msg.mac = macs[ReceiverRole]
    /\ msg.role = ReceiverRole
    /\ msg.rxpk.data = Txpk.data
    /\ msg.rxpk.datr = Txpk.datr
    /\ F64LtTenth(F64Abs(F64Sub(get_frequency(msg.rxpk), Txpk.freq)))

\* The process has ended: main returned or panicked.
Terminal == {"bind_error", "panicked", "elapsed_error", "done"}

Running == pc \notin Terminal

\* The frames a gateway may report: the expected one on each channel swept,
\* one 100 kHz below the first channel, one with another payload and one
\* with another data rate.
RxPks ==
    {[data |-> Payload(52, 0), datr |-> Datr, freq |-> f] :
        f \in {Channels[i] : i \in 1..Len(Channels)}
                \cup {Channels[1] - 100000}}
    \cup {[data |-> Payload(52, 1), datr |-> Datr, freq |-> Channels[1]],
          [data |-> Payload(52, 0), datr |-> OtherDatr, freq |-> Channels[1]]}

\* A gateway that reports nothing but the expected frame of the first
\* channel.
PlainRxPks ==
    {[data |-> Payload(52, 0), datr |-> Datr, freq |-> Channels[1]]}

\* The state after main's first two lines, but for the region of the
\* command line and the frames the gateways may report.
RunStart ==
    /\ pc = "start_test"
    /\ dir = 1
    /\ idx = 1
    /\ macs = [r \in Role |-> None]
    /\ elapsed = 0
    /\ pullElapsed = 0
    /\ passed = FALSE
    /\ matched = <<>>
    /\ matchArrived = FALSE
    /\ results = <<>>
    /\ dispatches = <<>>
    /\ spawned = [r \in Role |-> FALSE]
    /\ sender = [r \in Role |-> FALSE]
    /\ gate = [r \in Role |-> None]
    /\ resolved = [r \in Role |-> 0]
    /\ firstMac = [r \in Role |-> None]
    /\ reRegistered = FALSE
    /\ tolerated = FALSE
    /\ pending = [r \in Role |-> <<>>]
    /\ frames = 0
    /\ owed = 0
    /\ queue = <<>>
    /\ inbox = [r \in Role |-> <<>>]

InitRun == region \in CliRegions /\ RunStart

Init == InitRun /\ rxpks = RxPks /\ ToolIdle

InitPlain == InitRun /\ rxpks = PlainRxPks /\ ToolIdle

\* ------------------------------------------------------- the endpoints

\* A start_server that spawns the endpoint's task before it binds.
start_server_spawn_first(r, ok) ==
    /\ pc = (IF r = "Tested" THEN "start_test" ELSE "start_control")
    /\ spawned' = [spawned EXCEPT ![r] = TRUE]
    /\ sender' = [sender EXCEPT ![r] = TRUE]
    /\ pc' = (IF ~ok THEN "bind_error"
              ELSE IF r = "Tested" THEN "start_control" ELSE "await")
    /\ UNCHANGED <<region, rxpks, dir, idx, macs, elapsed, pullElapsed, passed,
                   matched, matchArrived, results, dispatches, gate, resolved,
                   firstMac, reRegistered, tolerated, pending, frames, owed,
                   queue, inbox, toolVars>>

\* start_server, called by main for endpoint r: the bind succeeds (ok) and
\* the endpoint's task is spawned, or it fails and main returns the error.
start_server(r, ok) ==
    /\ pc = (IF r = "Tested" THEN "start_test" ELSE "start_control")
    /\ IF ok
       THEN /\ spawned' = [spawned EXCEPT ![r] = TRUE]
            /\ sender' = [sender EXCEPT ![r] = TRUE]
            /\ pc' = (IF r = "Tested" THEN "start_control" ELSE "await")
       ELSE /\ pc' = "bind_error"
            /\ UNCHANGED <<spawned, sender>>
    /\ UNCHANGED <<region, rxpks, dir, idx, macs, elapsed, pullElapsed, passed,
                   matched, matchArrived, results, dispatches, gate, resolved,
                   firstMac, reRegistered, tolerated, pending, frames, owed,
                   queue, inbox, toolVars>>

\* Endpoint r's task is at test_client_rx.recv().
AtRecv(r) == Running /\ spawned[r] /\ pending[r] = <<>>

\* A NewClient arm that sends the mac of every registration, taking nothing.
UnlockTxEveryTime(r, mac) ==
    /\ sender' = sender
    /\ gate' = [gate EXCEPT ![r] = mac]
    /\ resolved' = [resolved EXCEPT ![r] = IF @ < 2 THEN @ + 1 ELSE @]

\* The body of the NewClient arm: test_tx.take() yields the sender only the
\* first time, and only then is the mac sent on the oneshot.
UnlockTx(r, mac) ==
    IF sender[r]
    THEN /\ sender' = [sender EXCEPT ![r] = FALSE]
         /\ gate' = [gate EXCEPT ![r] = mac]
         /\ resolved' = [resolved EXCEPT ![r] = @ + 1]
    ELSE UNCHANGED <<sender, gate, resolved>>

\* Event::NewClient
NewClient(r, mac) ==
    /\ AtRecv(r)
    /\ UnlockTx(r, mac)
    /\ firstMac' = (IF firstMac[r] = None
                    THEN [firstMac EXCEPT ![r] = mac] ELSE firstMac)
    /\ reRegistered' = (reRegistered \/ firstMac[r] # None)
    /\ UNCHANGED <<driverVars, spawned, tolerated, pending, frames, owed, queue,
                   inbox, toolVars>>

\* A try_send in place of send: the message is dropped when the channel is
\* full.
mpsc_try_send(r, msg) ==
    /\ queue' = (IF Len(queue) < QueueCap THEN Append(queue, msg) ELSE queue)
    /\ pending' = pending

\* A send that, on a full channel, puts the new message in the place of the
\* oldest one and holds the oldest one back.
mpsc_send_overtaking(r, msg) ==
    IF Len(queue) < QueueCap
    THEN queue' = Append(queue, msg) /\ pending' = pending
    ELSE /\ pending' = [pending EXCEPT ![r] = <<Head(queue)>>]
         /\ queue' = Append(Tail(queue), msg)

\* mpsc::Sender::send of endpoint r: the message is queued when the channel
\* has room; otherwise the task stays in the send, holding the message.
mpsc_send(r, msg) ==
    IF Len(queue) < QueueCap
    THEN queue' = Append(queue, msg) /\ pending' = pending
    ELSE pending' = [pending EXCEPT ![r] = <<msg>>] /\ queue' = queue

\* The frame fits the current step as the step's expectation is worded:
\* receiving role, same payload, same data rate, less than 100 kHz away.
FitsStep(msg) ==
    /\ msg.role = ReceiverRole
    /\ msg.rxpk.data = Txpk.data
    /\ msg.rxpk.datr = Txpk.datr
    /\ msg.rxpk.freq - Channels[idx] < 100000
    /\ Channels[idx] - msg.rxpk.freq < 100000

\* Event::PacketReceived: the frame is sent to the driver with the
\* endpoint's role.  fresh is history: the frame came after the dispatch
\* call of the step the driver is in had returned.
PacketReceived(r, rxpk, mac) ==
    /\ AtRecv(r)
    /\ frames < MaxFrames
    /\ LET msg == [rxpk |-> rxpk, mac |-> mac, role |-> r,
                   fresh |-> (pc = "recv")]
       IN  /\ mpsc_send(r, msg)
           /\ matchArrived' =
                \/ matchArrived
                \/ (pc = "recv" /\ elapsed < WaitFor /\ FitsStep(msg))
           /\ inbox' = [inbox EXCEPT ![r] = Append(@, msg)]
    /\ frames' = frames + 1
    /\ owed' = owed + 1
    /\ UNCHANGED <<region, rxpks, pc, dir, idx, macs, elapsed, pullElapsed,
                   passed, matched, results, dispatches, spawned, sender, gate,
                   resolved, firstMac, reRegistered, tolerated, toolVars>>

\* The blocked send of endpoint r completes once the channel has room.
SendReady(r) ==
    /\ Running
    /\ pending[r] # <<>>
    /\ Len(queue) < QueueCap
    /\ queue' = Append(queue, pending[r][1])
    /\ pending' = [pending EXCEPT ![r] = <<>>]
    /\ UNCHANGED <<driverVars, spawned, sender, gate, resolved, firstMac,
                   reRegistered, tolerated, frames, owed, inbox, toolVars>>

\* An arm that prints and does nothing else: the task goes back to
\* test_client_rx.recv().
PrintOnly(r) ==
    /\ AtRecv(r)
    /\ tolerated' = ~tolerated
    /\ UNCHANGED <<driverVars, spawned, sender, gate, resolved, firstMac,
                   reRegistered, pending, frames, owed, queue, inbox, toolVars>>

\* An arm that unwraps an error: the endpoint's task panics and ends.
PrintAndUnwrap(r) ==
    /\ AtRecv(r)
    /\ tolerated' = ~tolerated
    /\ spawned' = [spawned EXCEPT ![r] = FALSE]
    /\ UNCHANGED <<driverVars, sender, gate, resolved, firstMac, reRegistered,
                   pending, frames, owed, queue, inbox, toolVars>>

\* The events the task only prints.
UnableToParseUdpFrame(r) == PrintOnly(r)

UpdateClient(r) == PrintOnly(r)

NoClientWithMac(r) == PrintOnly(r)

RawPacket(r) == PrintOnly(r)

\* ---------------------------------------------------------- the driver

\* A select in place of the join: one oneshot holding a value is enough.
EitherConnected == \E r \in Role : gate[r] # None

\* join!(test_mac, control_mac) is ready: both oneshots hold a value.
BothConnected == \A r \in Role : gate[r] # None

\* main's join! of the two oneshot receivers.
JoinMacs ==
    /\ pc = "await"
    /\ BothConnected
    /\ macs' = gate
    /\ pc' = "dispatch"
    /\ UNCHANGED <<region, rxpks, dir, idx, elapsed, pullElapsed, passed,
                   matched, matchArrived, results, dispatches, endpointVars,
                   frames, owed, queue, inbox, toolVars>>

\* run_test after a dispatch that returned Ok: start, wait_for, passed.
StartStep ==
    /\ pc' = "recv"
    /\ elapsed' = 0
    /\ pullElapsed' = 0
    /\ passed' = FALSE
    /\ matched' = <<>>
    /\ matchArrived' = FALSE

\* A dispatch error that is logged and not acted on.
OnDispatchErrIgnored == StartStep

\* run_test after a dispatch that returned Err: panic!
OnDispatchErr ==
    /\ pc' = "panicked"
    /\ UNCHANGED <<elapsed, pullElapsed, passed, matched, matchArrived>>

\* A message that was received before a dispatch call returned.
Stale(msg) == [msg EXCEPT !.fresh = FALSE]

\* prepare_downlink(..).dispatch(5 s) of the current step returns.
Dispatch(ok) ==
    /\ pc = "dispatch"
    /\ dispatches' = Append(dispatches,
            [dir |-> dir, idx |-> idx, via |-> SenderRole,
             mac |-> macs[SenderRole], txpk |-> Txpk, ok |-> ok])
    /\ IF ok THEN StartStep ELSE OnDispatchErr
    /\ frames' = 0
    /\ queue' = [i \in 1..Len(queue) |-> Stale(queue[i])]
    /\ pending' = [r \in Role |->
                    [i \in 1..Len(pending[r]) |-> Stale(pending[r][i])]]
    /\ inbox' = [r \in Role |->
                    [i \in 1..Len(inbox[r]) |-> Stale(inbox[r][i])]]
    /\ UNCHANGED <<region, rxpks, dir, idx, macs, results, spawned, sender,
                   gate, resolved, firstMac, reRegistered, tolerated, owed,
                   toolVars>>

\* Time passes while the driver is in timeout(wait_for, receiver.recv()) and
\* the channel is empty: a tick is long against the time the driver takes
\* to pull a message that is there.
Tick ==
    /\ pc = "recv"
    /\ queue = <<>>
    /\ pullElapsed < WaitFor
    /\ elapsed' = elapsed + 1
    /\ pullElapsed' = pullElapsed + 1
    /\ UNCHANGED <<region, rxpks, pc, dir, idx, macs, passed, matched,
                   matchArrived, results, dispatches, endpointVars, frames,
                   owed, queue, inbox, toolVars>>

\* A main that returns after its first run_test call.
EndStepOneDirection ==
    /\ results' = Append(results, [dir |-> dir, idx |-> idx])
    /\ IF idx < Len(Channels)
       THEN pc' = "dispatch" /\ idx' = idx + 1 /\ dir' = dir
       ELSE pc' = "done" /\ idx' = idx /\ dir' = dir
    /\ UNCHANGED pullElapsed

\* The end of a step: the for loop goes to the next channel, run_test
\* returns Ok to main, which calls it again or returns.
EndStep ==
    /\ results' = Append(results, [dir |-> dir, idx |-> idx])
    /\ IF idx < Len(Channels)
       THEN pc' = "dispatch" /\ idx' = idx + 1 /\ dir' = dir
       ELSE IF dir = 1
            THEN pc' = "dispatch" /\ idx' = 1 /\ dir' = 2
            ELSE pc' = "done" /\ idx' = idx /\ dir' = dir
    /\ UNCHANGED pullElapsed

\* A loop that ends after its first pull, whatever was pulled.
while_never(hit) == FALSE

\* A loop that goes on until a frame matches, however late it is.
while_not_passed(hit) == ~hit

\* The condition of run_test's `while`, evaluated after a pull that set
\* `passed` to hit.
while_condition(hit) == elapsed < WaitFor /\ ~hit

\* A recv that leaves the message it yields in the channel.
mpsc_peek == queue' = queue

\* mpsc::Receiver::recv on a channel that holds a message: the oldest one
\* is taken out.
mpsc_recv == queue' = Tail(queue)

\* receiver.recv() yields a message: the `if`, then the `while` condition.
Recv ==
    /\ pc = "recv"
    /\ queue # <<>>
    /\ LET msg == Head(queue)
           hit == IsExpected(msg)
       IN  /\ mpsc_recv
           /\ owed' = owed - 1
           /\ inbox' = [inbox EXCEPT ![msg.role] = Tail(@)]
           /\ passed' = hit
           /\ matched' = (IF hit
                          THEN <<[msg |-> msg, channel |-> Channels[idx]]>>
                          ELSE matched)
           /\ IF while_condition(hit)
              THEN /\ pullElapsed' = 0
                   /\ UNCHANGED <<pc, dir, idx, results>>
              ELSE EndStep
    /\ UNCHANGED <<region, rxpks, macs, elapsed, matchArrived, dispatches,
                   endpointVars, frames, toolVars>>

\* timeout(wait_for, receiver.recv()) yields Err(Elapsed), which `?` returns
\* from run_test and from main.
RecvElapsed ==
    /\ pc = "recv"
    /\ queue = <<>>
    /\ pullElapsed >= WaitFor
    /\ pc' = "elapsed_error"
    /\ UNCHANGED <<region, rxpks, dir, idx, macs, elapsed, pullElapsed, passed,
                   matched, matchArrived, results, dispatches, endpointVars,
                   frames, owed, queue, inbox, toolVars>>

Next ==
    \/ \E r \in Role, ok \in BOOLEAN : start_server(r, ok)
    \/ \E r \in Role, mac \in MacAddress : NewClient(r, mac)
    \/ \E r \in Role, mac \in MacAddress, rxpk \in rxpks :
            PacketReceived(r, rxpk, mac)
    \/ \E r \in Role : SendReady(r)
    \/ \E r \in Role : UnableToParseUdpFrame(r)
    \/ \E r \in Role : UpdateClient(r)
    \/ \E r \in Role : NoClientWithMac(r)
    \/ \E r \in Role : RawPacket(r)
    \/ JoinMacs
    \/ \E ok \in BOOLEAN : Dispatch(ok)
    \/ Tick
    \/ Recv
    \/ RecvElapsed

Spec == Init /\ [][Next]_vars

\* The runs in which the gateways report only the expected frame of the
\* first channel.
SpecPlain == InitPlain /\ [][Next]_vars

\* Event::PacketReceived while main has not passed its join, without a bound
\* on the number of frames: a gateway reports frames, before its PULL_DATA
\* or after it, for as long as the endpoint takes them.
PacketBeforeJoin(r, rxpk, mac) ==
    /\ AtRecv(r)
    /\ pc \in {"start_control", "await"}
    /\ LET msg == [rxpk |-> rxpk, mac |-> mac, role |-> r, fresh |-> FALSE]
       IN  /\ mpsc_send(r, msg)
           /\ inbox' = [inbox EXCEPT ![r] = Append(@, msg)]
    /\ owed' = owed + 1
    /\ UNCHANGED <<driverVars, spawned, sender, gate, resolved, firstMac,
                   reRegistered, tolerated, frames, toolVars>>

\* main and its endpoints, with the frames that arrive before the join.
NextEarly ==
    \/ \E r \in Role, ok \in BOOLEAN : start_server(r, ok)
    \/ \E r \in Role, mac \in MacAddress : NewClient(r, mac)
    \/ \E r \in Role, mac \in MacAddress, rxpk \in rxpks :
            PacketBeforeJoin(r, rxpk, mac)
    \/ \E r \in Role : SendReady(r)
    \/ JoinMacs
    \/ \E ok \in BOOLEAN : Dispatch(ok)
    \/ Tick
    \/ Recv
    \/ RecvElapsed

\* The runs in which frames arrive only while main has not passed its join.
SpecEarly == InitPlain /\ [][NextEarly]_vars

\* Event::PacketReceived without a bound on the number of frames: the
\* gateway that registered with endpoint r keeps reporting frames for as
\* long as the endpoint takes them.
PacketFlood(r, rxpk) ==
    /\ AtRecv(r)
    /\ gate[r] # None
    /\ LET msg == [rxpk |-> rxpk, mac |-> gate[r], role |-> r,
                   fresh |-> (pc = "recv")]
       IN  /\ mpsc_send(r, msg)
           /\ matchArrived' =
                \/ matchArrived
                \/ (pc = "recv" /\ elapsed < WaitFor /\ FitsStep(msg))
           /\ inbox' = [inbox EXCEPT ![r] = Append(@, msg)]
    /\ owed' = owed + 1
    /\ UNCHANGED <<region, rxpks, pc, dir, idx, macs, elapsed, pullElapsed,
                   passed, matched, results, dispatches, spawned, sender, gate,
                   resolved, firstMac, reRegistered, tolerated, frames, toolVars>>

\* Time passes within the wait window while the channel holds a message
\* that the driver has yet to pull.
TickBusy ==
    /\ pc = "recv"
    /\ queue # <<>>
    /\ elapsed < WaitFor
    /\ elapsed' = elapsed + 1
    /\ UNCHANGED <<region, rxpks, pc, dir, idx, macs, pullElapsed, passed,
                   matched, matchArrived, results, dispatches, endpointVars,
                   frames, owed, queue, inbox, toolVars>>

\* Both endpoints run and a gateway has registered with each: main is at
\* its join.
InitLive ==
    /\ region \in CliRegions
    /\ rxpks = PlainRxPks
    /\ pc = "await"
    /\ dir = 1
    /\ idx = 1
    /\ macs = [r \in Role |-> None]
    /\ elapsed = 0
    /\ pullElapsed = 0
    /\ passed = FALSE
    /\ matched = <<>>
    /\ matchArrived = FALSE
    /\ results = <<>>
    /\ dispatches = <<>>
    /\ spawned = [r \in Role |-> TRUE]
    /\ sender = [r \in Role |-> FALSE]
    /\ gate = [r \in Role |-> IF r = "Tested" THEN "m1" ELSE "m2"]
    /\ resolved = [r \in Role |-> 1]
    /\ firstMac = gate
    /\ reRegistered = FALSE
    /\ tolerated = FALSE
    /\ pending = [r \in Role |-> <<>>]
    /\ frames = 0
    /\ owed = 0
    /\ queue = <<>>
    /\ inbox = [r \in Role |-> <<>>]
    /\ ToolIdle

\* The driver, and the endpoints as far as they feed the channel.
NextLive ==
    \/ \E r \in Role, rxpk \in rxpks : PacketFlood(r, rxpk)
    \/ \E r \in Role : SendReady(r)
    \/ JoinMacs
    \/ \E ok \in BOOLEAN : Dispatch(ok)
    \/ Tick
    \/ TickBusy
    \/ Recv
    \/ RecvElapsed

\* The runtime keeps running main's task, a dispatch call returns within
\* its timeout, and time passes.
Fairness ==
    /\ WF_vars(JoinMacs)
    /\ WF_vars(\E ok \in BOOLEAN : Dispatch(ok))
    /\ WF_vars(Recv)
    /\ WF_vars(RecvElapsed)
    /\ WF_vars(Tick \/ TickBusy)

\* The runs from the join on in which frames never stop arriving, under
\* fair scheduling.
SpecLive == InitLive /\ [][NextLive]_vars /\ Fairness

\* --------------------------------------------------------- sx13xx-conf

\* The characters of the texts explored; a text is a sequence of them.
Chars == {"/", "*", "\n", "\r", "}", "a", "$", "{"}

\* char::is_whitespace
is_whitespace(ch) == ch \in {" ", "\t", "\n", "\r"}

\* itr.peek() when the character at i has been taken: the next character,
\* "" for None.
Peek(text, i) == IF i < Len(text) THEN text[i + 1] ELSE ""

\* decomment's locals before its loop; panicked: an assert! has failed.
DecommentLocals ==
    [in_line_comment |-> FALSE, in_block_comment |-> FALSE,
     variable |-> FALSE, decommented |-> <<>>, panicked |-> FALSE]

\* assert!(!in_line_comment); assert!(!in_block_comment);
AssertNoComment(s) == ~s.in_line_comment /\ ~s.in_block_comment

\* One turn of decomment's loop on ch with peek after it: the locals after
\* the matching arm, and the number of characters the turn takes (the arm's
\* itr.next() included).
decomment_arm(s, ch, peek) ==
    IF ch = "$" /\ peek = "{"
    THEN IF AssertNoComment(s)
         THEN [s |-> [s EXCEPT !.variable = TRUE], take |-> 2]
         ELSE [s |-> [s EXCEPT !.panicked = TRUE], take |-> 1]
    ELSE IF peek = "}"
    THEN IF s.variable
         THEN IF AssertNoComment(s)
              THEN [s |-> [s EXCEPT !.decommented = @ \o <<"\"", "\"">>,
                                    !.variable = FALSE],
                    take |-> 2]
              ELSE [s |-> [s EXCEPT !.panicked = TRUE], take |-> 1]
         ELSE IF AssertNoComment(s) /\ ~is_whitespace(ch)
              THEN [s |-> [s EXCEPT !.decommented = Append(@, ch)], take |-> 1]
              ELSE [s |-> s, take |-> 1]
    ELSE IF ch = "/" /\ peek = "*"
    THEN IF AssertNoComment(s)
         THEN [s |-> [s EXCEPT !.in_block_comment = TRUE], take |-> 2]
         ELSE [s |-> [s EXCEPT !.panicked = TRUE], take |-> 1]
    ELSE IF ch = "*" /\ peek = "/"
    THEN IF s.in_block_comment
         THEN [s |-> [s EXCEPT !.in_block_comment = FALSE], take |-> 2]
         ELSE [s |-> [s EXCEPT !.panicked = TRUE], take |-> 1]
    ELSE IF ch = "/" /\ peek = "/"
    THEN IF AssertNoComment(s)
         THEN [s |-> [s EXCEPT !.in_line_comment = TRUE], take |-> 2]
         ELSE [s |-> [s EXCEPT !.panicked = TRUE], take |-> 1]
    ELSE IF ch = "\r" /\ peek = "\n" /\ s.in_line_comment
    THEN [s |-> [s EXCEPT !.in_line_comment = FALSE], take |-> 2]
    ELSE IF ch = "\n" /\ s.in_line_comment
    THEN [s |-> [s EXCEPT !.in_line_comment = FALSE], take |-> 1]
    ELSE IF s.in_block_comment \/ s.in_line_comment \/ s.variable
    THEN [s |-> s, take |-> 1]
    ELSE [s |-> [s EXCEPT !.decommented = Append(@, ch)], take |-> 1]

\* decomment's loop from the character at i on, with locals s.
RECURSIVE decomment_loop(_, _, _)
decomment_loop(text, i, s) ==
    IF s.panicked \/ i > Len(text)
    THEN s
    ELSE LET arm == decomment_arm(s, text[i], Peek(text, i))
         IN  decomment_loop(text, i + arm.take, arm.s)

\* decomment(src): the String returned, or panicked when an assert! failed
\* (the one after the loop included).
decomment(text) ==
    LET s == decomment_loop(text, 1, DecommentLocals)
    IN  [panicked |-> s.panicked \/ s.in_block_comment,
         decommented |-> s.decommented]

\* The texts decomment is called on.
Texts == UNION {[1..n -> Chars] : n \in 0..MaxLen}

\* Config::from_file calls decomment on the file's contents.
CallDecomment ==
    /\ out = <<>>
    /\ out' = <<decomment(src)>>
    /\ UNCHANGED <<runVars, src, checkerVars>>

InitDecomment ==
    /\ InitRun
    /\ rxpks = {}
    /\ src \in Texts
    /\ out = <<>>
    /\ CheckerIdle

NextDecomment == CallDecomment

\* sx13xx-conf up to the text it hands to serde_json.
SpecDecomment == InitDecomment /\ [][NextDecomment]_vars

\* Option values: None and Some(v).
NoneOpt == <<>>

Some(v) == <<v>>

\* What a function that may panic comes to.
Returned(v) == [panicked |-> FALSE, value |-> v]

Panicked == [panicked |-> TRUE, value |-> NoneOpt]

\* A frequency computed from radio_0 alone.
Channel_frequency_radio_0(chan, radio_0, radio_1) ==
    IF ~chan.enable THEN Returned(NoneOpt)
    ELSE IF chan.config = NoneOpt THEN Panicked
    ELSE IF chan.config[1].radio \in {0, 1}
         THEN Returned(Some(radio_0.freq + chan.config[1].if))
         ELSE Panicked

\* Channel::frequency, LoraStd::frequency and ChannelFsk::frequency, which
\* are the same function on three types.
Channel_frequency(chan, radio_0, radio_1) ==
    IF ~chan.enable THEN Returned(NoneOpt)
    ELSE IF chan.config = NoneOpt THEN Panicked
    ELSE LET c == chan.config[1]
         IN  IF c.radio = 0 THEN Returned(Some(radio_0.freq + c.if))
             ELSE IF c.radio = 1 THEN Returned(Some(radio_1.freq + c.if))
             ELSE Panicked

\* Sx130xConfData::frequency, and Config::frequency that calls it.
Sx130xConfData_frequency(conf, channel) ==
    IF channel \in 0..7
    THEN Channel_frequency(conf.chan_multiSF[channel + 1],
                           conf.radio_0, conf.radio_1)
    ELSE IF channel = 8
    THEN Channel_frequency(conf.chan_Lora_std, conf.radio_0, conf.radio_1)
    ELSE IF channel = 9
    THEN Channel_frequency(conf.chan_FSK, conf.radio_0, conf.radio_1)
    ELSE Returned(NoneOpt)

\* Sx130xConfData::summary as far as main depends on it: it panics when a
\* channel's frequency does or when radio_0 lacks tx_freq_min or
\* tx_freq_max; valid_tx is false when a multiSF frequency lies outside of
\* radio_0's transmit range.
Sx130xConfData_summary(conf) ==
    LET all == [ch \in 0..9 |-> Sx130xConfData_frequency(conf, ch)]
        frequencies == {all[ch].value[1] :
                            ch \in {c \in 0..7 : all[c].value # NoneOpt}}
    IN  IF \E ch \in 0..9 : all[ch].panicked THEN Panicked
        ELSE IF conf.radio_0.tx_freq_min = NoneOpt
                    \/ conf.radio_0.tx_freq_max = NoneOpt
        THEN Panicked
        ELSE Returned([valid_tx |-> \A f \in frequencies :
                            ~(f > conf.radio_0.tx_freq_max[1]
                                \/ f < conf.radio_0.tx_freq_min[1])])

\* `x as usize` of an isize x: the usize wrapped * 2^64 + low.
as_usize(x) == [wrapped |-> IF x < 0 THEN 1 ELSE 0, low |-> x]

\* The plan main checks the configuration against.
PlanOfChecker == get_uplink_frequencies(region)

\* The radios of the configurations explored.
Radio0Freq == PlanOfChecker[1] + 400000

Radio1Freq == PlanOfChecker[1] + 1100000

\* The settings of channel ch explored: as the plan has it on either radio,
\* disabled, 200 kHz off, below zero, enabled without `if` and `radio`, and
\* on a radio that does not exist.
ChannelSettings(ch) ==
    LET want == IF ch + 1 <= Len(PlanOfChecker)
                THEN PlanOfChecker[ch + 1] ELSE PlanOfChecker[1]
    IN  {[enable |-> TRUE,
          config |-> Some([if |-> want - Radio0Freq, radio |-> 0])],
         [enable |-> TRUE,
          config |-> Some([if |-> want - Radio1Freq, radio |-> 1])],
         [enable |-> FALSE, config |-> NoneOpt],
         [enable |-> FALSE,
          config |-> Some([if |-> want - Radio0Freq, radio |-> 0])],
         [enable |-> TRUE,
          config |-> Some([if |-> want - Radio0Freq + 200000, radio |-> 0])],
         [enable |-> TRUE,
          config |-> Some([if |-> 0 - Radio1Freq - 1, radio |-> 1])],
         [enable |-> TRUE, config |-> NoneOpt],
         [enable |-> TRUE,
          config |-> Some([if |-> want - Radio0Freq, radio |-> 2])]}

\* The configuration that follows the plan, with chan_FSK disabled.
PlanConfig(tx) ==
    LET chan(ch) ==
            [enable |-> ch + 1 <= Len(PlanOfChecker),
             config |-> IF ch + 1 <= Len(PlanOfChecker)
                        THEN IF ch < 4
                             THEN Some([if |-> PlanOfChecker[ch + 1] - Radio0Freq,
                                        radio |-> 0])
                             ELSE Some([if |-> PlanOfChecker[ch + 1] - Radio1Freq,
                                        radio |-> 1])
                        ELSE NoneOpt]
    IN  [radio_0 |-> [freq |-> Radio0Freq, tx_freq_min |-> tx[1],
                      tx_freq_max |-> tx[2]],
         radio_1 |-> [freq |-> Radio1Freq, tx_freq_min |-> NoneOpt,
                      tx_freq_max |-> NoneOpt],
         chan_multiSF |-> [i \in 1..8 |-> chan(i - 1)],
         chan_Lora_std |-> chan(8),
         chan_FSK |-> chan(9)]

\* conf with channel ch set to setting.
WithChannel(conf, ch, setting) ==
    IF ch \in 0..7
    THEN [conf EXCEPT !.chan_multiSF[ch + 1] = setting]
    ELSE IF ch = 8 THEN [conf EXCEPT !.chan_Lora_std = setting]
    ELSE [conf EXCEPT !.chan_FSK = setting]

\* radio_0's transmit range: one that holds the plan, one that ends below
\* its second entry, and none.
TxRanges ==
    {<<Some(PlanOfChecker[1] - 1000000), Some(PlanOfChecker[1] + 3000000)>>,
     <<Some(PlanOfChecker[1] - 1000000), Some(PlanOfChecker[1] + 100000)>>,
     <<NoneOpt, NoneOpt>>}

\* The configurations explored: the plan's, with any one channel and one of
\* chan_multiSF_1, chan_Lora_std and chan_FSK set otherwise.
Configs ==
    UNION {{WithChannel(WithChannel(PlanConfig(tx), a, sa), b, sb) :
                tx \in TxRanges,
                sa \in ChannelSettings(a), sb \in ChannelSettings(b)} :
           a \in 0..9, b \in {1, 8, 9}}

\* main: println!("{}", config.summary())
PrintSummary ==
    /\ cpc = "summary"
    /\ LET summary == Sx130xConfData_summary(config[1])
       IN  /\ cpc' = (IF summary.panicked THEN "panicked" ELSE "check")
           /\ warning' = (~summary.panicked /\ ~summary.value.valid_tx)
    /\ UNCHANGED <<runVars, decommentVars, config, index, reports>>

\* One turn of main's loop over the plan, and its end.
CheckChannel ==
    /\ cpc = "check"
    /\ IF index < Len(PlanOfChecker)
       THEN LET channel == PlanOfChecker[index + 1]
                got == Sx130xConfData_frequency(config[1], index)
                line == [index |-> index, expected |-> channel,
                         got |-> got.value]
            IN  /\ cpc' = (IF got.panicked THEN "panicked" ELSE "check")
                /\ index' = index + 1
                /\ reports' =
                        IF got.panicked THEN reports
                        ELSE IF got.value = NoneOpt THEN Append(reports, line)
                        ELSE IF as_usize(got.value[1]) # as_usize(channel)
                        THEN Append(reports, line)
                        ELSE reports
       ELSE cpc' = "done" /\ UNCHANGED <<index, reports>>
    /\ UNCHANGED <<runVars, decommentVars, config, warning>>

InitChecker ==
    /\ InitRun
    /\ rxpks = {}
    /\ DecommentIdle
    /\ config \in {Some(c) : c \in Configs}
    /\ cpc = "summary"
    /\ warning = FALSE
    /\ index = 0
    /\ reports = <<>>

NextChecker == PrintSummary \/ CheckChannel

\* sx13xx-conf from the parsed Config on.
SpecChecker == InitChecker /\ [][NextChecker]_vars

\* sx13xx-conf with any region on its command line and the configuration
\* that follows the region's plan.
InitRegions ==
    /\ region \in Region
    /\ RunStart
    /\ rxpks = {}
    /\ DecommentIdle
    /\ config \in {Some(PlanConfig(tx)) : tx \in TxRanges}
    /\ cpc = "summary"
    /\ warning = FALSE
    /\ index = 0
    /\ reports = <<>>

SpecRegions == InitRegions /\ [][NextChecker]_vars

\* ------------------------------------------------------------- claims

\* The two endpoints resolved to two devices.
TwoDevices == macs["Tested"] # macs["Control"]

\* The frame that set `passed` is less than 100,000 Hz away from the plan
\* entry of its step.
MatchedWithinHz ==
    /\ matched[1].msg.rxpk.freq - matched[1].channel < 100000
    /\ matched[1].channel - matched[1].msg.rxpk.freq < 100000

\* A step has ended and the next dispatch has not returned Ok: passed,
\* matched and matchArrived are those of the step that ended.
StepOver == results # <<>> /\ pc \in {"dispatch", "done", "panicked"}

\* The last dispatch call returned Err.
DispatchFailed == dispatches # <<>> /\ ~dispatches[Len(dispatches)].ok

\* The steps of a complete run: every channel in plan order, direction 1
\* and then direction 2.
FullSweep ==
    [i \in 1..(2 * Len(Channels)) |->
        IF i <= Len(Channels)
        THEN [dir |-> 1, idx |-> i]
        ELSE [dir |-> 2, idx |-> i - Len(Channels)]]

\* C1: a step passes if and only if a frame with the receiving role, the
\* dispatched payload and data rate and a frequency within tolerance arrived
\* in the step's wait window, after its dispatch (stated for runs with two
\* distinct devices and, in the "only if" direction, for a frame within
\* 100,000 Hz).
C1_PassIffMatchInWindow ==
    TwoDevices =>
        /\ (passed /\ MatchedWithinHz) => matchArrived
        /\ (StepOver /\ matchArrived) => passed

\* C2: a wait that ends without a matching frame, the timed-out pull
\* included, is a failed step: run_test never returns the timeout's error.
C2_TimeoutIsNotAnError == pc # "elapsed_error"

\* C3: a run that has ended and in which no dispatch failed has one result
\* per channel and direction, in plan order.
C3_FullSweepWithoutDispatchFailure ==
    (pc \in Terminal \ {"bind_error"} /\ ~DispatchFailed) => results = FullSweep

\* C4: once a dispatch has failed the run is aborted: the driver has
\* panicked, nothing was pulled or recorded for that channel, and no further
\* dispatch, pull or result follows.
C4_DispatchFailureAborts ==
    [][DispatchFailed' =>
        /\ pc' = "panicked"
        /\ owed' = owed
        /\ results' = results
        /\ Len(results') = Len(dispatches') - 1
        /\ (DispatchFailed => dispatches' = dispatches)]_vars

C4_Witness == pc = "panicked" /\ results # <<>> /\ queue # <<>>

\* C5: when both endpoints resolved to the same identity the driver does
\* not sweep.
C5_SameIdentityDetected ==
    (macs["Tested"] # None /\ macs["Tested"] = macs["Control"])
        => dispatches = <<>>

\* C6: an endpoint's oneshot is sent once, with the mac of the endpoint's
\* first NewClient; later events change neither it nor the mac main holds.
C6_GateResolvedOnce ==
    [][\A r \in Role :
        /\ resolved'[r] <= 1
        /\ gate'[r] = firstMac'[r]
        /\ (gate[r] # None => gate'[r] = gate[r])
        /\ (macs'[r] # None => macs'[r] = firstMac'[r])]_vars

C6_Witness ==
    /\ reRegistered
    /\ pc = "done"
    /\ \A r \in Role : macs[r] = gate[r]

\* C7: every frame an endpoint received and the driver has not pulled is in
\* the channel or held by its endpoint's blocked send, and the channel never
\* holds more than its capacity.
C7_NoObservationLost ==
    /\ Len(queue) <= QueueCap
    /\ owed = Len(queue) + Cardinality({r \in Role : pending[r] # <<>>})

C7_Witness ==
    /\ Len(queue) = QueueCap
    /\ \E r \in Role : pending[r] # <<>>
    /\ pc = "recv"

\* C8: while an endpoint's oneshot is unresolved nothing has been
\* dispatched and the driver is not past the join.
C8_NoDispatchBeforeRegistration ==
    (\E r \in Role : gate[r] = None) =>
        /\ dispatches = <<>>
        /\ pc \in {"start_test", "start_control", "await", "bind_error"}

C8_Witness ==
    /\ pc = "await"
    /\ gate["Tested"] # None
    /\ gate["Control"] = None
    /\ queue # <<>>

\* C9: a step passes only on a frame that came after the step's dispatch
\* call had returned (stated for runs with two distinct devices and a frame
\* within 100,000 Hz).
C9_OnlyFreshFramesMatch ==
    (passed /\ TwoDevices /\ MatchedWithinHz) => matched[1].msg.fresh

\* C10: a step passes only on a frame less than 100,000 Hz away from the
\* plan entry it dispatched on (stated for frames that came after the
\* dispatch, in runs with two distinct devices).
C10_PassWithinTolerance ==
    (passed /\ TwoDevices /\ matched[1].msg.fresh) => MatchedWithinHz

\* A dispatch call returns in this step.
Dispatched == Len(dispatches') = Len(dispatches) + 1

\* C11: steps never overlap: a dispatch call returns only when every
\* earlier dispatch has its step ended, and that step ended with `passed`
\* set or with its wait window elapsed; so at most one downlink is in
\* flight.
C11_StepsAreSequential ==
    [][/\ Len(dispatches') - Len(results') \in {0, 1}
       /\ Dispatched =>
            /\ Len(results) = Len(dispatches)
            /\ results # <<>> => (passed \/ elapsed >= WaitFor)]_vars

C11_Witness ==
    /\ pc = "recv"
    /\ Len(results) = 1
    /\ Len(dispatches) = 2
    /\ dispatches[1].ok

\* The driver's state: 0 awaiting registration, 1 and 2 sweeping in the
\* first and the second direction, 3 done.
Phase ==
    IF pc \in {"start_test", "start_control", "await", "bind_error"} THEN 0
    ELSE IF pc = "done" THEN 3 ELSE dir

\* The results of the first direction's sweep.
FirstSweep == SubSeq(FullSweep, 1, Len(Channels))

\* C12: the driver's state only moves from awaiting registration to the
\* first direction, to the second direction, to done, one state at a time;
\* a dispatch of the second direction returns only after every step of the
\* first direction has ended, and done is entered only after both sweeps.
C12_PhasesInOrder ==
    [][/\ Phase' \in {Phase, Phase + 1}
       /\ (Dispatched /\ dir = 2) => SubSeq(results, 1, Len(Channels)) = FirstSweep
       /\ (Dispatched /\ dir = 1) => Len(results) < Len(Channels)
       /\ Phase' = 3 => results' = FullSweep]_vars

C12_Witness ==
    /\ pc = "done"
    /\ results = FullSweep
    /\ Len(dispatches) = 2 * Len(Channels)

\* C13: a dispatch of direction 1 goes through the test endpoint to the mac
\* that registered there and a dispatch of direction 2 through the control
\* endpoint to the mac that registered there; a pull sets `passed` only on a
\* message with the role of the other endpoint.
C13_DirectionRoles ==
    [][/\ Dispatched =>
            LET d == dispatches'[Len(dispatches')]
            IN  /\ d.via = (IF d.dir = 1 THEN "Tested" ELSE "Control")
                /\ d.mac = firstMac[d.via]
       /\ (pc = "recv" /\ passed') =>
            Head(queue).role = (IF dir = 1 THEN "Control" ELSE "Tested")]_vars

C13_Witness ==
    /\ pc = "dispatch"
    /\ dir = 2
    /\ passed
    /\ matched[1].msg.role = "Tested"
    /\ dispatches[Len(dispatches)].via = "Control"

\* C14: when a bind fails the endpoint's task is not spawned and main
\* returns the error: the control endpoint's task never runs, nothing was
\* joined, dispatched or recorded, and nothing happens afterwards.
C14_BindFailureEndsTheRun ==
    [][/\ (pc' = "bind_error" /\ pc = "start_test") => ~spawned'["Tested"]
       /\ pc' = "bind_error" =>
            /\ ~spawned'["Control"]
            /\ pc \in {"start_test", "start_control"}
            /\ macs' = [r \in Role |-> None]
            /\ dispatches' = <<>>
            /\ results' = <<>>]_vars

C14_Witness ==
    /\ pc = "bind_error"
    /\ spawned["Tested"]
    /\ gate["Tested"] # None
    /\ queue # <<>>

\* The messages of endpoint r in the channel, oldest first.
QueuedOf(r) == SelectSeq(queue, LAMBDA m : m.role = r)

RECURSIVE KeptFrom(_, _, _)
KeptFrom(text, i, mode) ==
    IF i > Len(text) THEN <<>>
    ELSE LET ch == text[i]
             peek == Peek(text, i)
         IN  CASE mode = "text" ->
                    IF ch = "/" /\ peek = "*" THEN KeptFrom(text, i + 2, "block")
                    ELSE IF ch = "/" /\ peek = "/"
                    THEN KeptFrom(text, i + 2, "line")
                    ELSE IF ch = "$" /\ peek = "{"
                    THEN KeptFrom(text, i + 2, "variable")
                    ELSE (IF is_whitespace(ch) THEN <<>> ELSE <<ch>>)
                            \o KeptFrom(text, i + 1, "text")
               [] mode = "block" ->
                    IF ch = "*" /\ peek = "/" THEN KeptFrom(text, i + 2, "text")
                    ELSE KeptFrom(text, i + 1, "block")
               [] mode = "line" ->
                    KeptFrom(text, i + 1, IF ch = "\n" THEN "text" ELSE "line")
               [] mode = "variable" ->
                    KeptFrom(text, i + 1, IF ch = "}" THEN "text" ELSE "variable")

\* What a returned String shows of its argument: its characters but the
\* whitespace and the quotes that stand for variables.
Shown(text) == SelectSeq(text, LAMBDA ch : ~is_whitespace(ch) /\ ch # "\"")

\* C16: when decomment returns, what it returns is, whitespace and the
\* stand-ins for variables aside, the characters of src that are not
\* whitespace and lie outside of comments and variables, in order; so the
\* text on the line after a // comment is kept.
C16_DecommentKeepsText ==
    (out # <<>> /\ ~out[1].panicked) =>
        Shown(out[1].decommented) = KeptFrom(src, 1, "text")

\* The configuration's channel i: chan_multiSF_0..7, chan_Lora_std,
\* chan_FSK.
ChannelAt(i) ==
    IF i <= 7 THEN config[1].chan_multiSF[i + 1]
    ELSE IF i = 8 THEN config[1].chan_Lora_std ELSE config[1].chan_FSK

\* Channel i is disabled, or enabled with a frequency (its radio's freq
\* plus its if) other than the plan's entry i.
Mismatch(i) ==
    LET chan == ChannelAt(i)
        radio == IF chan.config[1].radio = 0
                 THEN config[1].radio_0 ELSE config[1].radio_1
    IN  \/ ~chan.enable
        \/ radio.freq + chan.config[1].if # PlanOfChecker[i + 1]

C18_WaitEndsWithWindow == elapsed <= WaitFor

\* C19: once both oneshots hold a value the run ends: main returns or
\* panics, however many frames arrive.
C19_RunTerminates == BothConnected ~> (pc \in Terminal)

C19_Witness ==
    /\ pc = "done"
    /\ ~passed
    /\ \A r \in Role : pending[r] # <<>>

\* C20: a pull takes the head of the channel out, once, and judges it by the
\* expectation of the step in progress; the driver puts nothing back: the
\* channel grows only by a frame an endpoint received or by the message an
\* endpoint's blocked send held.
C20_PulledOnceNeverRequeued ==
    [][/\ owed' < owed =>
            /\ pc = "recv"
            /\ owed' = owed - 1
            /\ queue' = Tail(queue)
            /\ pending' = pending
            /\ passed' = IsExpected(Head(queue))
       /\ Len(queue') > Len(queue) =>
            /\ owed' >= owed
            /\ SubSeq(queue', 1, Len(queue)) = queue
            /\ \/ owed' = owed + 1
               \/ \E r \in Role : /\ pending[r] = <<queue'[Len(queue')]>>
                                  /\ pending'[r] = <<>>]_vars

C20_Witness ==
    /\ pc = "recv"
    /\ frames = MaxFrames
    /\ owed = 0
    /\ ~passed
    /\ elapsed < WaitFor

\* SpecLive starts in a state of SpecPlain: TLC finds this invariant
\* violated under SpecPlain.
InitLiveNotReached == ~InitLive

\* C21: an event the endpoint only prints changes neither its oneshot nor
\* the channel nor a blocked send, ends neither the endpoint's task nor the
\* run, and leaves the endpoint that handled it at its recv for the next
\* event.
C21_PrintedEventsAreHarmless ==
    [][tolerated' # tolerated =>
        /\ gate' = gate
        /\ sender' = sender
        /\ resolved' = resolved
        /\ queue' = queue
        /\ pending' = pending
        /\ spawned' = spawned
        /\ pc' = pc
        /\ \E r \in Role : AtRecv(r) /\ (AtRecv(r))']_vars

C21_Witness ==
    /\ tolerated
    /\ pc = "recv"
    /\ queue # <<>>
    /\ \E r \in Role : pending[r] # <<>>

\* C22: the TxPk of every dispatch call is an immediate LoRa transmission at
\* the plan entry's Hz over 1,000,000, with coding rate 4/5, the configured
\* data rate and power, and 52 zero bytes of size 52; two dispatches on the
\* same plan entry, one in each direction, carry the same TxPk.
C22_CommandOfPlanEntry ==
    \A i \in 1..Len(dispatches) :
        LET d == dispatches[i]
        IN  /\ d.txpk.freq = F64OfHz(get_uplink_frequencies(region)[d.idx])
            /\ d.txpk.data = Payload(52, 0)
            /\ d.txpk.size = 52
            /\ d.txpk.codr = "4/5"
            /\ d.txpk.modu = "LORA"
            /\ d.txpk.imme
            /\ d.txpk.datr = Datr
            /\ d.txpk.powe = Power
            /\ \A j \in 1..Len(dispatches) :
                    dispatches[j].idx = d.idx => dispatches[j].txpk = d.txpk

C22_Witness ==
    \E i, j \in 1..Len(dispatches) :
        /\ dispatches[i].dir = 1
        /\ dispatches[j].dir = 2
        /\ dispatches[i].idx = 2
        /\ dispatches[j].idx = 2

\* The plan entries sx13xx-conf's loop has compared so far.
Visited == SubSeq(PlanOfChecker, 1, index)

\* C23 as stated: the plan of every region is a non-empty list of positive
\* frequencies in which no frequency appears twice, so the steps over it
\* target pairwise distinct frequencies.
C23_PlanIsOrderedSet ==
    /\ PlanOfChecker # <<>>
    /\ \A i \in 1..Len(PlanOfChecker) : PlanOfChecker[i] > 0
    /\ \A i, j \in 1..Len(Visited) : i # j => Visited[i] # Visited[j]

\* C23, amended: the plan of every region is a non-empty list of positive
\* frequencies in which no frequency appears twice, but for EU868 whose
\* ninth entry, 868,300,000 Hz, is its second entry again.
C23_PlanRepeatsOnlyInEU868 ==
    /\ PlanOfChecker # <<>>
    /\ \A i \in 1..Len(PlanOfChecker) : PlanOfChecker[i] > 0
    /\ \A i, j \in 1..Len(Visited) :
            (i < j /\ Visited[i] = Visited[j]) =>
                /\ region = "EU868"
                /\ i = 2
                /\ j = 9
                /\ Visited[i] = 868300000

C23_Witness ==
    /\ region = "EU868"
    /\ cpc = "done"
    /\ index = 9
    /\ reports = <<>>

\* The frequency of an enabled channel of the configuration, multiSF 0..7,
\* LoRa std or FSK, is outside radio_0's transmit range.
ListenedOutsideTx ==
    \E ch \in 0..9 :
        LET f == Sx130xConfData_frequency(config[1], ch)
        IN  /\ ~f.panicked
            /\ f.value # NoneOpt
            /\ \/ f.value[1] > config[1].radio_0.tx_freq_max[1]
               \/ f.value[1] < config[1].radio_0.tx_freq_min[1]

\* C24: the printed summary carries the warning if and only if some enabled
\* channel, multiSF 0..7, LoRa std or FSK, has a frequency outside of
\* radio_0's transmit range.
C24_WarningIffOutsideTx ==
    cpc \in {"check", "done"} => (warning <=> ListenedOutsideTx)

\* Endpoint r's task is in a send on the full channel, its oneshot unsent,
\* while main is at its join: main pulls nothing before the join, so the
\* send never completes and the task never takes its NewClient.
StuckBeforeRegistration(r) ==
    /\ pc = "await"
    /\ gate[r] = None
    /\ pending[r] # <<>>
    /\ Len(queue) = QueueCap

\* C25: however many frames the endpoints receive before the join, no
\* endpoint blocked in its send on the full channel keeps an oneshot, its
\* own or the other endpoint's, from being sent and the first sweep from
\* starting.
C25_BlockedSendNeverStopsRegistration ==
    \A r \in Role : ~StuckBeforeRegistration(r)

\* C26: the message that sets `passed` was reported through the receiving
\* endpoint with the mac that endpoint's oneshot was sent with; a message
\* with any other mac is not accepted, whatever else of it matches.
C26_PassOnlyFromRegisteredMac ==
    [][(~passed /\ passed') =>
        /\ pc = "recv"
        /\ queue # <<>>
        /\ Head(queue).role = ReceiverRole
        /\ Head(queue).mac = gate[ReceiverRole]
        /\ Head(queue).mac = firstMac[ReceiverRole]]_vars

\* The frame that fits the step was pulled in its window and not accepted.
C26_Witness ==
    /\ pc = "recv"
    /\ matchArrived
    /\ owed = 0
    /\ ~passed
    /\ elapsed < WaitFor
    /\ TwoDevices

\* Every /* of the text is followed by a */ that starts after it.
EveryBlockClosed(text) ==
    \A i \in 1..Len(text) :
        (text[i] = "/" /\ Peek(text, i) = "*") =>
            \E j \in (i + 2)..Len(text) :
                text[j] = "*" /\ Peek(text, j) = "/"

\* Read as C and C++ read comments, the text from the character at i on,
\* which lies in mode ("text", a "line" comment or a "block" comment), has
\* no */ outside of a comment and does not end in a block comment.
RECURSIVE WellCommented(_, _, _)
WellCommented(text, i, mode) ==
    IF i > Len(text) THEN mode # "block"
    ELSE LET ch == text[i]
             peek == Peek(text, i)
         IN  CASE mode = "text" ->
                    IF ch = "/" /\ peek = "*"
                    THEN WellCommented(text, i + 2, "block")
                    ELSE IF ch = "/" /\ peek = "/"
                    THEN WellCommented(text, i + 2, "line")
                    ELSE IF ch = "*" /\ peek = "/" THEN FALSE
                    ELSE WellCommented(text, i + 1, "text")
               [] mode = "block" ->
                    IF ch = "*" /\ peek = "/"
                    THEN WellCommented(text, i + 2, "text")
                    ELSE WellCommented(text, i + 1, "block")
               [] mode = "line" ->
                    WellCommented(text, i + 1,
                                  IF ch = "\n" THEN "text" ELSE "line")

\* C27: on a text in which every /* is closed by a later */, decomment
\* returns: none of its assertions fails, also when a // or a /* stands
\* inside a comment (stated for the texts that have no */ outside of a
\* comment).
C27_DecommentReturns ==
    (out # <<>> /\ EveryBlockClosed(src) /\ WellCommented(src, 1, "text"))
        => ~out[1].panicked

====
